---- MODULE Spec2Model ----
(***************************************************************************)
(* A model of PDFAnalyzer (src/PDFAnalyzer.py): the constructor's pipeline *)
(* __find_pdfs -> __analyze_pdfs -> __calculate_total, the two fatal exits *)
(* and the public accessors.                                               *)
(*                                                                         *)
(* Python strings are sequences of one-character strings, so that join,    *)
(* strip, upper, count and the regular expression are computed character   *)
(* by character.  Python dicts are functions; the empty dict is <<>>.      *)
(***************************************************************************)
EXTENDS Naturals, Sequences, FiniteSets, TLC

\* ------------------------------------------------------------------ bounds
\* At most this many keyword groups in the configured keyword_list.
MaxGroups == 2
\* At most this many synonyms in the configured keyword_list, all groups together.
MaxKeys == 3
\* At most this many files in the walked directory tree.
MaxFiles == 2

\* ----------------------------------------------------------- characters
\* str.upper() on the characters that occur in the model.
Upper(ch) ==
    CASE ch = "a" -> "A"
      [] ch = "b" -> "B"
      [] ch = "p" -> "P"
      [] ch = "d" -> "D"
      [] ch = "f" -> "F"
      [] ch = "s" -> "S"
      [] OTHER -> ch

\* The regular expression's \w: letters (digits and "_" do not occur).
IsWord(ch) == ch \in {"a", "A", "b", "B", "p", "P", "d", "D", "f", "F", "s", "S"}

\* The regular expression's class [-|'].
IsJoiner(ch) == ch \in {"-", "|", "'"}

\* Whitespace, as str.strip() removes it.
IsSpace(ch) == ch = " "

\* ----------------------------------------------------- string functions
StrUpper(s) == [i \in 1..Len(s) |-> Upper(s[i])]

EndsWith(s, suffix) ==
    /\ Len(s) >= Len(suffix)
    /\ SubSeq(s, Len(s) - Len(suffix) + 1, Len(s)) = suffix

\* str.strip(): drop leading and trailing whitespace.
Strip(s) ==
    LET keep == {i \in 1..Len(s) : ~IsSpace(s[i])}
    IN  IF keep = {} THEN <<>>
        ELSE LET lo == CHOOSE i \in keep : \A j \in keep : i <= j
                 hi == CHOOSE i \in keep : \A j \in keep : i >= j
             IN  SubSeq(s, lo, hi)

\* sep.join(parts)
RECURSIVE Join(_, _)
Join(sep, parts) ==
    IF Len(parts) = 0 THEN <<>>
    ELSE IF Len(parts) = 1 THEN parts[1]
    ELSE parts[1] \o sep \o Join(sep, Tail(parts))

\* content.count(key): non-overlapping literal occurrences, scanning from
\* position i; the empty key occurs between all characters.
RECURSIVE CountFrom(_, _, _)
CountFrom(content, key, i) ==
    IF i + Len(key) - 1 > Len(content) THEN 0
    ELSE IF SubSeq(content, i, i + Len(key) - 1) = key
         THEN 1 + CountFrom(content, key, i + Len(key))
         ELSE CountFrom(content, key, i + 1)

StrCount(content, key) ==
    IF Len(key) = 0 THEN Len(content) + 1 ELSE CountFrom(content, key, 1)

\* ------------------------------------------------------------- re.findall
\* The pattern  \b(KEY)(?!\w)(?:([-|'])+(\w+))*  with re.IGNORECASE, KEY being
\* re.escape(singleKey), i.e. the key taken literally.  Keys are non-empty.
WordAt(content, j) == j \in 1..Len(content) /\ IsWord(content[j])

\* \b at the gap before position i.
Boundary(content, i) == WordAt(content, i - 1) # WordAt(content, i)

\* (KEY) matches at position i, ignoring case.
KeyAt(content, key, i) ==
    /\ i + Len(key) - 1 <= Len(content)
    /\ \A k \in 1..Len(key) : Upper(content[i + k - 1]) = Upper(key[k])

\* \b(KEY)(?!\w) matches at position i.
MatchAt(content, key, i) ==
    /\ Boundary(content, i)
    /\ KeyAt(content, key, i)
    /\ ~WordAt(content, i + Len(key))

\* Number of consecutive characters from position j on that satisfy a class.
RECURSIVE RunOfJoiners(_, _)
RunOfJoiners(content, j) ==
    IF j <= Len(content) /\ IsJoiner(content[j])
    THEN 1 + RunOfJoiners(content, j + 1) ELSE 0

RECURSIVE RunOfWord(_, _)
RunOfWord(content, j) ==
    IF WordAt(content, j) THEN 1 + RunOfWord(content, j + 1) ELSE 0

\* (?:([-|'])+(\w+))* is greedy: the position after the last continuation
\* that starts at position j.
RECURSIVE ContinuationEnd(_, _)
ContinuationEnd(content, j) ==
    LET h == RunOfJoiners(content, j)
        w == RunOfWord(content, j + h)
    IN  IF h >= 1 /\ w >= 1 THEN ContinuationEnd(content, j + h + w) ELSE j

\* len(re.findall(...)): non-overlapping matches, scanning from position i.
RECURSIVE FindallFrom(_, _, _)
FindallFrom(content, key, i) ==
    IF i > Len(content) THEN 0
    ELSE IF MatchAt(content, key, i)
         THEN 1 + FindallFrom(content, key, ContinuationEnd(content, i + Len(key)))
         ELSE FindallFrom(content, key, i + 1)

RegexCount(content, key) == FindallFrom(content, key, 1)

\* ------------------------------------------------------------------ inputs
\* Synonym strings a caller may configure: "a" and "b " (trailing blank).
Synonyms == { <<"a">>, <<"b", " ">> }

\* All sequences over S of length at most n.
SeqsUpTo(S, n) == UNION { [1..k -> S] : k \in 0..n }

RECURSIVE TotalKeys(_)
TotalKeys(kl) == IF Len(kl) = 0 THEN 0 ELSE Len(kl[1]) + TotalKeys(Tail(kl))

\* The keyword_list arguments: a list of groups, each a list of synonyms.
KeywordLists ==
    { kl \in SeqsUpTo(SeqsUpTo(Synonyms, MaxKeys), MaxGroups) : TotalKeys(kl) <= MaxKeys }

\* What parser.from_file(...)["content"] may hold: the document's text, or
\* None for a document without a text layer.
None == <<"None">>
Texts ==
    { <<"A", " ", "a", "-", "a">>,
      <<" ", "a", " ", "b", " ">>,
      <<"a", "b">> }

\* Files under the directory: "d/a.pdf", "d/s/b.PdF" and "d/pdf" (no extension).
DirEntries ==
    { [root |-> <<"d">>, file |-> <<"a", ".", "p", "d", "f">>],
      [root |-> <<"d", "/", "s">>, file |-> <<"b", ".", "P", "d", "F">>],
      [root |-> <<"d">>, file |-> <<"p", "d", "f">>] }

\* What os.walk yields: the files in some order, each once.
Directories ==
    { d \in SeqsUpTo(DirEntries, MaxFiles) : \A i, j \in 1..Len(d) : d[i] = d[j] => i = j }

\* ------------------------------------------------------------------- state
VARIABLES
    arg_keyword_list,  \* the constructor's keyword_list argument
    directory,         \* what os.walk(self.__directory) yields
    as_words,          \* self.__as_words
    use_regex,         \* self.__use_regex
    keyword_list,      \* self.__keyword_list
    found_pdfs,        \* self.__found_pdfs
    histogram,         \* self.__histogram
    total_count,       \* self.__total_count
    pc,                \* where the run is: find, analyze, extract, match, total, done, exit, raise
    idx,               \* position of pdf_file in found_pdfs (the loop of __analyze_pdfs)
    content,           \* the local content of __analyze_pdfs
    outcome,           \* the sys.exit message or the uncaught exception, "" if none
    returned,          \* a caller holds the dict get_histogram returned
    events             \* history: the steps taken, in order

vars == << arg_keyword_list, directory, as_words, use_regex, keyword_list, found_pdfs,
           histogram, total_count, pc, idx, content, outcome, returned, events >>

config == << arg_keyword_list, directory, as_words, use_regex, keyword_list >>

Event(op, file, text) == [op |-> op, file |-> file, content |-> text]

\* ------------------------------------------------------------ __init__
\* Lines 33-38: with as_words every keyword gets a blank on both sides.
InitKeywordList(kl, aw) ==
    IF aw
    THEN [i \in 1..Len(kl) |-> [j \in 1..Len(kl[i]) |-> <<" ">> \o kl[i][j] \o <<" ">>]]
    ELSE kl

Init ==
    /\ arg_keyword_list \in KeywordLists
    /\ directory \in Directories
    /\ as_words \in BOOLEAN
    /\ use_regex \in BOOLEAN
    /\ keyword_list = InitKeywordList(arg_keyword_list, as_words)
    /\ found_pdfs = <<>>
    /\ histogram = <<>>
    /\ total_count = <<>>
    /\ pc = "find"
    /\ idx = 1
    /\ content = <<>>
    /\ outcome = ""
    /\ returned = FALSE
    /\ events = <<>>

\* ---------------------------------------------------------- __find_pdfs
\* A slip: the suffix tested without its dot.
IsPdfWithoutDot(file) == EndsWith(StrUpper(file), <<"P", "D", "F">>)

\* Line 46.
IsPdf(file) == EndsWith(StrUpper(file), <<".", "P", "D", "F">>)

PdfPaths(dir) ==
    LET sel == SelectSeq(dir, LAMBDA e : IsPdf(e.file))
    IN  [i \in 1..Len(sel) |-> sel[i].root \o <<"/">> \o sel[i].file]

FindPdfs ==
    /\ pc = "find"
    /\ found_pdfs' = found_pdfs \o PdfPaths(directory)
    /\ pc' = "analyze"
    /\ events' = Append(events, Event("find", <<>>, <<>>))
    /\ UNCHANGED << config, histogram, total_count, idx, content, outcome, returned >>

\* ------------------------------------------------------- __analyze_pdfs
\* Lines 50-51.
AnalyzeExit ==
    /\ pc = "analyze"
    /\ Len(found_pdfs) = 0
    /\ pc' = "exit"
    /\ outcome' = "No PDF files found!"
    /\ UNCHANGED << config, found_pdfs, histogram, total_count, idx, content, returned, events >>

\* Line 53: the loop starts with the first found file.
AnalyzeLoop ==
    /\ pc = "analyze"
    /\ Len(found_pdfs) # 0
    /\ pc' = "extract"
    /\ idx' = 1
    /\ UNCHANGED << config, found_pdfs, histogram, total_count, content, outcome, returned, events >>

\* Lines 54-55: the text extraction, an external call.
Extract ==
    /\ pc = "extract"
    /\ \E c \in Texts \cup {None} :
          /\ content' = c
          /\ events' = Append(events, Event("extract", found_pdfs[idx], c))
    /\ pc' = "match"
    /\ UNCHANGED << config, found_pdfs, histogram, total_count, idx, outcome, returned >>

\* -------------------------------------------------- __add_to_histogram
\* A slip: a second write to a (file, keyword) pair replaces the first.
AddToHistogramOverwrite(h, file_name, keyword, count) ==
    IF file_name \in DOMAIN h
    THEN IF keyword \in DOMAIN h[file_name]
         THEN [h EXCEPT ![file_name][keyword] = count]
         ELSE [h EXCEPT ![file_name] = @ @@ (keyword :> count)]
    ELSE h @@ (file_name :> (keyword :> count))

\* Lines 75-81.
AddToHistogram(h, file_name, keyword, count) ==
    IF file_name \in DOMAIN h
    THEN IF keyword \in DOMAIN h[file_name]
         THEN [h EXCEPT ![file_name][keyword] = @ + count]
         ELSE [h EXCEPT ![file_name] = @ @@ (keyword :> count)]
    ELSE h @@ (file_name :> (keyword :> count))

\* ----------------------------------------------- __find_keywords_in_pdf
\* Lines 65-71: len(re.findall(...)) or content.count(singleKey).
MatchCount(text, singleKey, regex) ==
    IF regex THEN RegexCount(text, singleKey) ELSE StrCount(text, singleKey)

\* Line 63.
MultiKey(keyword) == Strip(Join(<<"/">>, keyword))

\* Lines 64-72: the loop over the synonyms of one group, from the j-th on.
RECURSIVE SingleKeyLoop(_, _, _, _, _, _)
SingleKeyLoop(h, file_name, text, keyword, regex, j) ==
    IF j > Len(keyword) THEN h
    ELSE SingleKeyLoop(
             AddToHistogram(h, file_name, MultiKey(keyword),
                            MatchCount(text, keyword[j], regex)),
             file_name, text, keyword, regex, j + 1)

\* Lines 62-72: the loop over the groups, from the i-th on.
RECURSIVE KeywordLoop(_, _, _, _, _, _)
KeywordLoop(h, file_name, text, kl, regex, i) ==
    IF i > Len(kl) THEN h
    ELSE KeywordLoop(SingleKeyLoop(h, file_name, text, kl[i], regex, 1),
                     file_name, text, kl, regex, i + 1)

\* The first use of a None content raises: content.count is an AttributeError,
\* re.findall(pattern, None) a TypeError.  Without any synonym it is never used.
ContentUsed(kl) == \E i \in 1..Len(kl) : Len(kl[i]) > 0

\* Lines 59-60.
FindKeywordsExit ==
    /\ pc = "match"
    /\ Len(keyword_list) = 0
    /\ pc' = "exit"
    /\ outcome' = "Empty keyword list!"
    /\ UNCHANGED << config, found_pdfs, histogram, total_count, idx, content, returned, events >>

FindKeywordsRaise ==
    /\ pc = "match"
    /\ Len(keyword_list) # 0
    /\ content = None
    /\ ContentUsed(keyword_list)
    /\ pc' = "raise"
    /\ outcome' = IF use_regex THEN "TypeError" ELSE "AttributeError"
    /\ UNCHANGED << config, found_pdfs, histogram, total_count, idx, content, returned, events >>

\* Lines 62-72, and the loop of __analyze_pdfs moving on (line 53).
FindKeywordsInPdf ==
    /\ pc = "match"
    /\ Len(keyword_list) # 0
    /\ ~(content = None /\ ContentUsed(keyword_list))
    /\ histogram' = KeywordLoop(histogram, found_pdfs[idx], content, keyword_list, use_regex, 1)
    /\ events' = Append(events, Event("match", found_pdfs[idx], content))
    /\ content' = <<>>
    /\ IF idx < Len(found_pdfs)
       THEN pc' = "extract" /\ idx' = idx + 1
       ELSE pc' = "total" /\ idx' = idx
    /\ UNCHANGED << config, found_pdfs, total_count, outcome, returned >>

\* ------------------------------------------------------ __calculate_total
\* A slip: a key already in the totals is assigned, not added to.
RECURSIVE AddKeysOverwrite(_, _, _)
AddKeysOverwrite(tc, keyList, keys) ==
    IF keys = {} THEN tc
    ELSE LET key == CHOOSE k \in keys : TRUE
         IN  AddKeysOverwrite(IF key \in DOMAIN tc
                              THEN [tc EXCEPT ![key] = keyList[key]]
                              ELSE tc @@ (key :> keyList[key]),
                              keyList, keys \ {key})

\* Lines 86-90: the keys of one file's dict, added into the totals.
RECURSIVE AddKeys(_, _, _)
AddKeys(tc, keyList, keys) ==
    IF keys = {} THEN tc
    ELSE LET key == CHOOSE k \in keys : TRUE
         IN  AddKeys(IF key \in DOMAIN tc
                     THEN [tc EXCEPT ![key] = @ + keyList[key]]
                     ELSE tc @@ (key :> keyList[key]),
                     keyList, keys \ {key})

\* Line 85: the loop over the files of the histogram.
RECURSIVE AddFiles(_, _, _)
AddFiles(tc, h, files) ==
    IF files = {} THEN tc
    ELSE LET f == CHOOSE x \in files : TRUE
         IN  AddFiles(AddKeys(tc, h[f], DOMAIN h[f]), h, files \ {f})

TotalOf(tc, h) == AddFiles(tc, h, DOMAIN h)

CalculateTotal ==
    /\ pc = "total"
    /\ total_count' = TotalOf(total_count, histogram)
    /\ pc' = "done"
    /\ events' = Append(events, Event("total", <<>>, <<>>))
    /\ UNCHANGED << config, found_pdfs, histogram, idx, content, outcome, returned >>

\* --------------------------------------------------------- public methods
\* Line 100: the dict itself is returned, not a copy.
GetHistogram ==
    /\ pc = "done"
    /\ returned' = TRUE
    /\ UNCHANGED << config, found_pdfs, histogram, total_count, pc, idx, content, outcome, events >>

\* Lines 109-111: json.dumps reads the histogram.
GetHistogramJson ==
    /\ pc = "done"
    /\ \E minify \in BOOLEAN : UNCHANGED vars

\* Lines 121-130: the plot reads total_count.
PlotHistogram ==
    /\ pc = "done"
    /\ UNCHANGED vars

\* A caller deletes an entry of the dict get_histogram returned: it is
\* self.__histogram.
CallerDelete ==
    /\ pc = "done"
    /\ returned
    /\ \E f \in DOMAIN histogram :
          histogram' = [g \in DOMAIN histogram \ {f} |-> histogram[g]]
    /\ UNCHANGED << config, found_pdfs, total_count, pc, idx, content, outcome, returned, events >>

\* ----------------------------------------------------------- specification
Construct ==
    \/ FindPdfs
    \/ AnalyzeExit
    \/ AnalyzeLoop
    \/ Extract
    \/ FindKeywordsExit
    \/ FindKeywordsRaise
    \/ FindKeywordsInPdf
    \/ CalculateTotal

Next ==
    \/ Construct
    \/ GetHistogram
    \/ GetHistogramJson
    \/ PlotHistogram

Spec == Init /\ [][Next]_vars

\* The analyzer together with a caller that writes through the returned dict.
NextCaller == Next \/ CallerDelete

SpecCaller == Init /\ [][NextCaller]_vars

\* =================================================================== claims
\* The steps of a kind taken so far.
EventsOf(op) == { i \in DOMAIN events : events[i].op = op }

\* The files the matcher has finished.
Processed == { events[i].file : i \in EventsOf("match") }

\* The text the matcher was given for a processed file.
TextOf(f) ==
    events[CHOOSE i \in EventsOf("match") : events[i].file = f].content

RECURSIVE SumOverFiles(_, _, _)
SumOverFiles(h, label, files) ==
    IF files = {} THEN 0
    ELSE LET f == CHOOSE x \in files : TRUE
         IN  (IF label \in DOMAIN h[f] THEN h[f][label] ELSE 0)
             + SumOverFiles(h, label, files \ {f})

\* C1: once the construction has completed, every label of total_count holds
\* the sum of that label's counts over all files of the histogram, and every
\* label of any file's dict is a label of total_count.
C1_TotalIsSum ==
    pc = "done" =>
        /\ \A label \in DOMAIN total_count :
              total_count[label] = SumOverFiles(histogram, label, DOMAIN histogram)
        /\ \A f \in DOMAIN histogram : DOMAIN histogram[f] \subseteq DOMAIN total_count

\* A total that adds up positive counts of two files.
C1_Witness ==
    /\ pc = "done"
    /\ \E f1, f2 \in DOMAIN histogram :
          /\ f1 # f2
          /\ \E label \in DOMAIN histogram[f1] \cap DOMAIN histogram[f2] :
                /\ histogram[f1][label] > 0
                /\ histogram[f2][label] > 0
                /\ total_count[label] = histogram[f1][label] + histogram[f2][label]

\* The sum of the counts of the synonyms of one group, each counted alone.
RECURSIVE SynonymSum(_, _, _)
SynonymSum(text, keyword, regex) ==
    IF Len(keyword) = 0 THEN 0
    ELSE MatchCount(text, Head(keyword), regex) + SynonymSum(text, Tail(keyword), regex)

\* The sum of SynonymSum over the groups of kl whose label is the given one.
RECURSIVE LabelSum(_, _, _, _)
LabelSum(text, kl, regex, label) ==
    IF Len(kl) = 0 THEN 0
    ELSE (IF MultiKey(Head(kl)) = label THEN SynonymSum(text, Head(kl), regex) ELSE 0)
         + LabelSum(text, Tail(kl), regex, label)

\* C2 as stated: for every processed document and every group, the count under
\* the group's label is the sum of the counts of that group's synonyms.
C2_GroupSum ==
    \A f \in Processed : \A i \in 1..Len(keyword_list) :
        Len(keyword_list[i]) > 0 =>
            /\ f \in DOMAIN histogram
            /\ MultiKey(keyword_list[i]) \in DOMAIN histogram[f]
            /\ histogram[f][MultiKey(keyword_list[i])]
                   = SynonymSum(TextOf(f), keyword_list[i], use_regex)

\* C2 as amended: for every processed document and every label recorded for
\* it, the count is the sum of the counts of the synonyms of all groups that
\* have this label; every write to the (file, label) pair is added.
C2_LabelSum ==
    \A f \in Processed :
        /\ \A i \in 1..Len(keyword_list) :
              Len(keyword_list[i]) > 0 =>
                  f \in DOMAIN histogram /\ MultiKey(keyword_list[i]) \in DOMAIN histogram[f]
        /\ f \in DOMAIN histogram =>
              \A label \in DOMAIN histogram[f] :
                  histogram[f][label] = LabelSum(TextOf(f), keyword_list, use_regex, label)

\* Two groups with one label whose synonyms occur in the document: the pair
\* (file, label) was written once per group, and both counts were added.
C2_Witness ==
    \E f \in Processed :
        /\ Len(keyword_list) = 2
        /\ MultiKey(keyword_list[1]) = MultiKey(keyword_list[2])
        /\ SynonymSum(TextOf(f), keyword_list[1], use_regex) > 0
        /\ SynonymSum(TextOf(f), keyword_list[2], use_regex) > 0
        /\ histogram[f][MultiKey(keyword_list[1])]
               = SynonymSum(TextOf(f), keyword_list[1], use_regex)
                 + SynonymSum(TextOf(f), keyword_list[2], use_regex)

\* The display label of a configured group: its synonyms joined with "/",
\* surrounding whitespace removed.
DisplayLabel(synonyms) == Strip(Join(<<"/">>, synonyms))

ConfiguredLabels == { DisplayLabel(arg_keyword_list[i]) : i \in 1..Len(arg_keyword_list) }

\* The run has ended: by a fatal exit, by an exception, or with the object built.
Ended == pc \in {"exit", "raise", "done"}

\* C3: a construction with an empty keyword list ends in the
\* 'Empty keyword list!' exit, whatever the directory holds.
C3_EmptyListIsConfigurationError ==
    (Ended /\ Len(arg_keyword_list) = 0) => outcome = "Empty keyword list!"

\* str.lower() on the characters of the file names.
Lower(ch) ==
    CASE ch = "P" -> "p"
      [] ch = "D" -> "d"
      [] ch = "F" -> "f"
      [] OTHER -> ch

\* The file's name ends in ".pdf", whatever the case of its letters.
HasPdfExtension(file) ==
    /\ Len(file) >= 4
    /\ [k \in 1..4 |-> Lower(file[Len(file) - 4 + k])] = <<".", "p", "d", "f">>

\* The paths of the PDF files of a walk, in the walk's order.
RECURSIVE DiscoveredPaths(_)
DiscoveredPaths(dir) ==
    IF Len(dir) = 0 THEN <<>>
    ELSE (IF HasPdfExtension(Head(dir).file)
          THEN << Head(dir).root \o <<"/">> \o Head(dir).file >>
          ELSE <<>>) \o DiscoveredPaths(Tail(dir))

\* C4: with no file under the directory whose name ends in ".pdf" (in any
\* case), the run never extracts or matches and never completes: the only
\* way it ends is the 'No PDF files found!' exit.
C4_NoPdfIsFatal ==
    Len(DiscoveredPaths(directory)) = 0 =>
        /\ pc \in {"find", "analyze", "exit"}
        /\ pc = "analyze" => Len(found_pdfs) = 0
        /\ pc = "exit" => outcome = "No PDF files found!"
        /\ EventsOf("extract") \cup EventsOf("match") \cup EventsOf("total") = {}
        /\ histogram = <<>>

\* The fatal exit, taken for a directory that holds a file that is no PDF.
C4_Witness ==
    /\ Len(directory) > 0
    /\ Len(DiscoveredPaths(directory)) = 0
    /\ pc = "exit"
    /\ outcome = "No PDF files found!"

\* C5: in regex mode the matcher is handed the configured synonyms, without
\* the blanks of as_words.
C5_RegexKeysUnpadded ==
    (use_regex /\ pc = "match") => keyword_list = arg_keyword_list

\* C6: in substring mode the labels recorded for a processed document are
\* exactly the display labels of the configured groups, a group without any
\* occurrence being recorded with 0, and no count is negative.
C6_EveryLabelRecorded ==
    ~use_regex =>
        \A f \in Processed :
            /\ f \in DOMAIN histogram
            /\ DOMAIN histogram[f] = ConfiguredLabels
            /\ \A label \in DOMAIN histogram[f] : histogram[f][label] >= 0

\* C7: under every configuration each key of a document's dict is the display
\* label of a configured group, and each configured group that has synonyms
\* is recorded under its display label.
C7_LabelIsJoinedSynonyms ==
    \A f \in DOMAIN histogram :
        /\ DOMAIN histogram[f] \subseteq ConfiguredLabels
        /\ \A i \in 1..Len(arg_keyword_list) :
              Len(arg_keyword_list[i]) > 0 =>
                  DisplayLabel(arg_keyword_list[i]) \in DOMAIN histogram[f]

\* C8: the 'Empty keyword list!' exit is taken before any discovery step and
\* before any text extraction.
C8_ExitBeforeProcessing ==
    outcome = "Empty keyword list!" =>
        EventsOf("find") \cup EventsOf("extract") = {}

\* C9: once the construction has completed, no step (of a public method, or
\* of a caller that uses what get_histogram returned) changes the histogram
\* or total_count.
C9_ImmutableAfterConstruction ==
    [][pc = "done" => (histogram' = histogram /\ total_count' = total_count)]_vars

\* The steps of a completed run over the given paths: the discovery, then for
\* each path its extraction and its matching, then the totals.
RECURSIVE StepsOver(_)
StepsOver(paths) ==
    IF Len(paths) = 0 THEN << <<"total", <<>>>> >>
    ELSE << <<"extract", Head(paths)>>, <<"match", Head(paths)>> >> \o StepsOver(Tail(paths))

RunOver(paths) == << <<"find", <<>>>> >> \o StepsOver(paths)

\* The histogram holds exactly the discovered PDF paths, and the steps taken
\* are one extraction and one matching per discovered path, in discovery
\* order and on the same text, with the totals after the last file.
AllFilesRecorded ==
    /\ DOMAIN histogram = { DiscoveredPaths(directory)[i] : i \in 1..Len(DiscoveredPaths(directory)) }
    /\ [i \in 1..Len(events) |-> <<events[i].op, events[i].file>>]
           = RunOver(DiscoveredPaths(directory))
    /\ \A i \in EventsOf("match") : events[i].content = events[i - 1].content

\* C10 as stated: a construction that completes with a non-empty keyword list
\* has recorded every discovered file.
C10_CompletedRunRecordsAllFiles ==
    (pc = "done" /\ Len(keyword_list) # 0) => AllFilesRecorded

\* C10 as amended: a construction that completes with a keyword list in which
\* some group has a synonym has recorded every discovered file.
C10_CompletedRunWithSynonyms ==
    (pc = "done" /\ \E i \in 1..Len(keyword_list) : Len(keyword_list[i]) > 0)
        => AllFilesRecorded

\* A completed run over two discovered files.
C10_Witness ==
    /\ pc = "done"
    /\ Len(DiscoveredPaths(directory)) = 2
    /\ \E i \in 1..Len(keyword_list) : Len(keyword_list[i]) > 0
    /\ Cardinality(DOMAIN histogram) = 2

====
